---- MODULE Spec2Model ----
(***************************************************************************)
(* Ingestion pipeline of peyote (src/src/ingest.py): the POST /ingest      *)
(* endpoint, the background job async_ingest_repository, the walk of       *)
(* process_repository and the batch flush process_and_insert_batch.        *)
(*                                                                         *)
(* Every job is a thread; its position in the code is job[j].pc.  The      *)
(* external services (git clone, embedding request, storage insert,        *)
(* notification) answer nondeterministically; every call a job makes is    *)
(* appended to job[j].calls in the order the code issues it.               *)
(*                                                                         *)
(* Retrieval tools of peyote (src/backend/src/mcp_server.py):              *)
(* handle_call_tool and retrieve_context, under the specification ToolSpec. *)
(* The directory walk and the text splitter of process_repository are      *)
(* checked on their own inputs under WalkSpec and SplitSpec.               *)
(***************************************************************************)
EXTENDS Integers, Sequences, FiniteSets, Bags, TLC

(* ---------------------------- bounds ----------------------------------- *)
\* number of POST /ingest requests in one run
MaxJobs == 2
\* number of files over all the cloned trees of one run
MaxFiles == 2
\* number of chunks split_text yields for one file
MaxChunks == 2
\* number of external calls (clone, embedding, insert, notification) that
\* fail in one run
MaxFaults == 2
\* batch capacity (ingest.py:111 sets 100; scaled down for the model)
BATCH_SIZE == 2

(* --------------------------- configuration ----------------------------- *)
INCLUDE_EXTENSIONS == {".py", ".js", ".ts", ".md", ".go", ".rs", ".java", ".c", ".cpp", ".h", ".hpp"}
IGNORE_DIRECTORIES == {".git", "node_modules", "dist", "build", "__pycache__"}
IGNORE_FILES == {<<"package-lock", ".json">>, <<"yarn", ".lock">>}

(* ------------------------------ values --------------------------------- *)
Slots == 1 .. MaxJobs
\* temp directory names mkdtemp can produce; 0 is "no directory"
DirNames == 1 .. MaxJobs
NoDir == 0
\* a URL is its '/'-separated segments, a segment its tokens; <<>> is the
\* empty or missing string
Missing == <<>>
UrlList == << << <<"github.com">>, <<"devabhixda">>, <<"peyote", ".git">> >>,
             << <<"github.com">>, <<"fork">>, <<"peyote">> >> >>
Emails == { <<"dev@example.org">> }
Commits == {"c1"}
\* the local variable relative_path before its first assignment
Unbound == <<>>
CLONE_FAILED == "Failed to clone repository"

Range(s) == {s[i] : i \in DOMAIN s}
SeqsUpTo(S, n) == UNION {[1 .. k -> S] : k \in 0 .. n}
BagOfSeq(s) == [x \in Range(s) |-> Cardinality({i \in DOMAIN s : s[i] = x})]

(* ---------------------- files of a cloned tree ------------------------- *)
\* dir: directory names from the repository root; stem, ext: the file name;
\* readable: open/read succeed; nchunks: chunks split_text yields
SourceFiles ==
    {[dir |-> <<>>, stem |-> "mod", ext |-> ".py", readable |-> TRUE, nchunks |-> n] :
        n \in 0 .. MaxChunks}
UnreadableFiles ==
    {[dir |-> <<>>, stem |-> "mod", ext |-> ".py", readable |-> FALSE, nchunks |-> 0]}
ExcludedFiles ==
    {[dir |-> <<"node_modules">>, stem |-> "mod", ext |-> ".js", readable |-> TRUE, nchunks |-> 1],
     [dir |-> <<>>, stem |-> "yarn", ext |-> ".lock", readable |-> TRUE, nchunks |-> 1],
     [dir |-> <<>>, stem |-> "logo", ext |-> ".png", readable |-> FALSE, nchunks |-> 0]}
FileKinds == SourceFiles \cup UnreadableFiles \cup ExcludedFiles

(* ----------------------------- state ----------------------------------- *)
VARIABLES
    nreq,        \* requests handled by ingest_endpoint so far
    response,    \* response[r]: HTTP status returned to request r (0: none yet)
    job,         \* job[r]: the background thread started for request r
    code_chunks, \* the storage table "code_chunks", a bag of records
    dirs,        \* temporary directories that exist on disk
    faults,      \* external calls that have failed so far
    tool,        \* the tool call handle_call_tool is serving (mcp_server.py)
    walk,        \* an os.walk of one tree, directory by directory
    splitter     \* a text and the chunks split_text gave for it

vars == <<nreq, response, job, code_chunks, dirs, faults, tool, walk, splitter>>
ingest_vars == <<nreq, response, job, code_chunks, dirs, faults>>

NoJob ==
    [pc |-> "none", status |-> "none", repo_url |-> Missing, user_email |-> Missing,
     temp_dir |-> NoDir, walked |-> <<>>, head |-> "", batch |-> <<>>,
     relative_path |-> Unbound, repo_meta |-> <<>>, error_message |-> "None",
     calls |-> <<>>]

\* an optional value: None is the empty sequence, a value v is <<v>>
Null == <<>>
Some(v) == <<v>>

\* no tool call has arrived; rows: the data of the storage response;
\* retrieved: what retrieve_context returned; result: the content blocks
\* handle_call_tool returned; exc: the exception it raised, as the parts of
\* its message
NoCall ==
    [pc |-> "idle", name |-> "", arguments |-> Null, code_snippet |-> "",
     calls |-> <<>>, rows |-> Null, retrieved |-> Null, result |-> <<>>, exc |-> <<>>]
\* os.walk has not been called
NoWalk == [pc |-> "idle", tree |-> {}, stack |-> <<>>, listed |-> <<>>, opened |-> {}]
\* split_text has not been called
NoSplit == [pc |-> "idle", text |-> <<>>, chunks |-> <<>>]

Init ==
    /\ nreq = 0
    /\ response = [r \in Slots |-> 0]
    /\ job = [r \in Slots |-> NoJob]
    /\ code_chunks = EmptyBag
    /\ dirs = {}
    /\ faults = 0
    /\ tool = NoCall
    /\ walk = NoWalk
    /\ splitter = NoSplit

(* ------------------------- POST /ingest -------------------------------- *)
\* what request.get_json() gives: it raises, or returns None, or a dict
Bodies ==
    {[kind |-> "raise", repo_url |-> Missing, user_email |-> Missing],
     [kind |-> "null", repo_url |-> Missing, user_email |-> Missing]}
    \cup {[kind |-> "dict", repo_url |-> u, user_email |-> e] :
            u \in Range(UrlList) \cup {Missing}, e \in Emails \cup {Missing}}

\* the URLs a request can name: one an earlier request named, or the next
\* new one (URLs are opaque, so the first request names UrlList[1])
SeenUrls == {job[r].repo_url : r \in Slots} \ {Missing}
Urls == {UrlList[i] : i \in {i \in DOMAIN UrlList : i <= Cardinality(SeenUrls) + 1}}

IngestStatus(data) ==
    IF data.kind = "raise" THEN 500
    ELSE IF data.kind = "null" THEN 400
    ELSE IF data.repo_url = Missing THEN 400
    ELSE IF data.user_email = Missing THEN 400
    ELSE 202

ingest_endpoint(data) ==
    /\ nreq < MaxJobs
    /\ data.repo_url \in Urls \cup {Missing}
    /\ nreq' = nreq + 1
    /\ response' = [response EXCEPT ![nreq + 1] = IngestStatus(data)]
    /\ job' = IF IngestStatus(data) = 202
              THEN [job EXCEPT ![nreq + 1] =
                        [NoJob EXCEPT !.pc = "pending", !.status = "pending",
                                      !.repo_url = data.repo_url,
                                      !.user_email = data.user_email]]
              ELSE job
    /\ UNCHANGED <<code_chunks, dirs, faults, tool, walk, splitter>>

(* -------------------- async_ingest_repository -------------------------- *)
Log(j, entries) == job[j].calls \o entries

\* tempfile.TemporaryDirectory(): mkdtemp makes a directory that did not
\* exist before (names are opaque: the first free one stands for any)
FreshDirs == {d \in DirNames \ dirs : \A e \in DirNames \ dirs : d <= e}

EnterTempDir(j, d) ==
    /\ job[j].pc = "pending"
    /\ d \in FreshDirs
    /\ dirs' = dirs \cup {d}
    /\ job' = [job EXCEPT ![j].pc = "cloning", ![j].status = "cloning",
                          ![j].temp_dir = d,
                          ![j].calls = Log(j, <<[op |-> "mkdtemp", ok |-> TRUE, dir |-> d]>>)]
    /\ UNCHANGED <<nreq, response, code_chunks, faults, tool, walk, splitter>>

FilesUsed == LET Sum[r \in 0 .. MaxJobs] ==
                    IF r = 0 THEN 0 ELSE Sum[r - 1] + Len(job[r].walked)
             IN  Sum[MaxJobs]

\* clone_repo lets the GitCommandError through: the handler of line 336
\* reports the exception text
CloneFailedRaises(j) ==
    /\ job[j].pc = "cloning"
    /\ faults < MaxFaults
    /\ faults' = faults + 1
    /\ job' = [job EXCEPT ![j].pc = "notify", ![j].status = "failed",
                          ![j].error_message = "GitCommandError", ![j].temp_dir = NoDir,
                          ![j].calls = Log(j, <<[op |-> "clone", ok |-> FALSE],
                                                [op |-> "rmtree", ok |-> TRUE, dir |-> job[j].temp_dir]>>)]
    /\ dirs' = dirs \ {job[j].temp_dir}
    /\ UNCHANGED <<nreq, response, code_chunks, tool, walk, splitter>>

\* the branch of line 319 without its notification
CloneFailedSilent(j) ==
    /\ job[j].pc = "cloning"
    /\ faults < MaxFaults
    /\ faults' = faults + 1
    /\ job' = [job EXCEPT ![j].pc = "done", ![j].status = "failed",
                          ![j].error_message = CLONE_FAILED, ![j].temp_dir = NoDir,
                          ![j].calls = Log(j, <<[op |-> "clone", ok |-> FALSE],
                                                [op |-> "rmtree", ok |-> TRUE, dir |-> job[j].temp_dir]>>)]
    /\ dirs' = dirs \ {job[j].temp_dir}
    /\ UNCHANGED <<nreq, response, code_chunks, tool, walk, splitter>>

\* lines 318-319: clone_repo catches GitCommandError and returns None
CloneFailed(j) ==
    /\ job[j].pc = "cloning"
    /\ faults < MaxFaults
    /\ faults' = faults + 1
    /\ job' = [job EXCEPT ![j].pc = "notify", ![j].status = "failed",
                          ![j].error_message = CLONE_FAILED,
                          ![j].calls = Log(j, <<[op |-> "clone", ok |-> FALSE]>>)]
    /\ dirs' = dirs
    /\ UNCHANGED <<nreq, response, code_chunks, tool, walk, splitter>>

\* the with block is left and the directory stays on disk
ExitTempDirLeak(j) == dirs

\* the with block is left: TemporaryDirectory.__exit__ removes the directory
ExitTempDir(j) == dirs \ {job[j].temp_dir}
Rmtree(j) == IF job[j].temp_dir = NoDir THEN <<>>
             ELSE <<[op |-> "rmtree", ok |-> TRUE, dir |-> job[j].temp_dir]>>

\* an exception leaves process_repository: the with block is unwound and
\* the handler at line 336 takes it
Raised(j, exc, entries) ==
    [job[j] EXCEPT !.pc = "notify", !.status = "failed", !.error_message = exc,
                   !.batch = <<>>, !.temp_dir = NoDir,
                   !.calls = @ \o entries \o Rmtree(j)]

(* ------------------------ get_repo_metadata ---------------------------- *)
\* url.split('/')[-1].replace('.git', '')
RepoName(url) == SelectSeq(url[Len(url)], LAMBDA t : t # ".git")

get_repo_metadata(url, head) ==
    [repo_name |-> RepoName(url), commit_hash |-> head]

\* line 318: clone_repo returns temp_dir, the tree is on disk, checked out
\* at head; lines 324, 248-260: process_repository reads the metadata and
\* starts the walk with an empty batch
CloneOk(j, head) ==
    /\ job[j].pc = "cloning"
    /\ head \in Commits
    /\ job' = [job EXCEPT ![j].pc = "walk", ![j].status = "processing",
                  ![j].head = head,
                  ![j].repo_meta = [repo_name |-> get_repo_metadata(job[j].repo_url, head).repo_name,
                                    commit_hash |-> get_repo_metadata(job[j].repo_url, head).commit_hash,
                                    repo_url |-> job[j].repo_url],
                  ![j].batch = <<>>, ![j].walked = <<>>,
                  ![j].calls = Log(j, <<[op |-> "clone", ok |-> TRUE],
                                        [op |-> "metadata", ok |-> TRUE]>>)]
    /\ UNCHANGED <<nreq, response, code_chunks, dirs, faults, tool, walk, splitter>>

(* --------------------- process_and_insert_batch ------------------------ *)
\* what the two services do with one flush
FlushOutcomes == {"ok", "embed_error", "short_response", "insert_error"}
Fault(o) == IF o = "ok" THEN 0 ELSE 1
Injected(o) == /\ faults + Fault(o) <= MaxFaults
               /\ faults' = faults + Fault(o)

\* the vector the embedding model gives for a text
Embedding(content) == <<"vec", content>>

\* response.data of embeddings.create(input = contents)
EmbeddingResponse(contents, o) ==
    IF o = "short_response"
    THEN [i \in 1 .. (Len(contents) - 1) |-> Embedding(contents[i])]
    ELSE [i \in 1 .. Len(contents) |-> Embedding(contents[i])]

\* records_to_insert with the vector before the item's own (embeddings[i - 1],
\* which for the first item is the last vector)
RecordsToInsertOffByOne(batch, embeddings) ==
    [i \in 1 .. Len(batch) |->
        [file_path |-> batch[i].file_path, content |-> batch[i].content,
         embedding |-> embeddings[IF i = 1 THEN Len(embeddings) ELSE i - 1],
         metadata |-> batch[i].metadata]]

\* records_to_insert, built by position (lines 209-216)
RecordsToInsert(batch, embeddings) ==
    [i \in 1 .. Len(batch) |->
        [file_path |-> batch[i].file_path, content |-> batch[i].content,
         embedding |-> embeddings[i], metadata |-> batch[i].metadata]]

\* a flush whose failed insert has stored the first record
process_and_insert_batch_partial(batch, o) ==
    LET contents   == [i \in 1 .. Len(batch) |-> batch[i].content]
        embeddings == [i \in 1 .. Len(contents) |-> <<"vec", contents[i]>>]
        embed(ok)  == [op |-> "embed", ok |-> ok, n |-> Len(contents), data |-> contents,
                       resp |-> IF ok THEN embeddings ELSE <<>>]
        records    == [i \in 1 .. Len(batch) |->
                          [file_path |-> batch[i].file_path, content |-> batch[i].content,
                           embedding |-> embeddings[i], metadata |-> batch[i].metadata]]
        insert(ok) == [op |-> "insert", ok |-> ok, n |-> Len(records), data |-> records,
                       batch |-> batch]
    IN  IF batch = <<>>
        THEN [exc |-> "None", calls |-> <<>>, written |-> <<>>]
        ELSE IF o = "embed_error"
        THEN [exc |-> "EmbeddingError", calls |-> <<embed(FALSE)>>, written |-> <<>>]
        ELSE IF o = "short_response"
        THEN [exc |-> "IndexError", calls |-> <<embed(TRUE)>>, written |-> <<>>]
        ELSE IF o = "insert_error"
        THEN [exc |-> "InsertError", calls |-> <<embed(TRUE), insert(FALSE)>>,
              written |-> <<records[1]>>]
        ELSE [exc |-> "None", calls |-> <<embed(TRUE), insert(TRUE)>>, written |-> records]

\* the flush: calls: the requests it issued (an embedding request with its
\* inputs and the vectors of the response, an insert with its records and the
\* batch of the flush); written: the records that reached the table; exc: the
\* exception it re-raises ("None": it returns)
process_and_insert_batch(batch, o) ==
    LET contents   == [i \in 1 .. Len(batch) |-> batch[i].content]
        embeddings == EmbeddingResponse(contents, o)
        embed(ok)  == [op |-> "embed", ok |-> ok, n |-> Len(contents), data |-> contents,
                       resp |-> IF ok THEN embeddings ELSE <<>>]
    IN  IF batch = <<>>
        THEN [exc |-> "None", calls |-> <<>>, written |-> <<>>]
        ELSE IF o = "embed_error"
        THEN [exc |-> "EmbeddingError", calls |-> <<embed(FALSE)>>, written |-> <<>>]
        ELSE IF Len(embeddings) < Len(batch)
        THEN [exc |-> "IndexError", calls |-> <<embed(TRUE)>>, written |-> <<>>]
        ELSE LET records == RecordsToInsert(batch, embeddings)
                 insert(ok) == [op |-> "insert", ok |-> ok, n |-> Len(records), data |-> records,
                                batch |-> batch]
             IN  IF o = "insert_error"
                 THEN [exc |-> "InsertError", calls |-> <<embed(TRUE), insert(FALSE)>>,
                       written |-> <<>>]
                 ELSE [exc |-> "None", calls |-> <<embed(TRUE), insert(TRUE)>>,
                       written |-> records]

(* ------------------------ process_repository --------------------------- *)
\* line 263: os.walk never enters a directory deleted from dirs
Pruned(f) == \E i \in DOMAIN f.dir : f.dir[i] \in IGNORE_DIRECTORIES
\* line 268
Filtered(f) == <<f.stem, f.ext>> \in IGNORE_FILES \/ f.ext \notin INCLUDE_EXTENSIONS

get_language_from_extension(ext) ==
    CASE ext = ".py" -> "python" [] ext = ".js" -> "javascript"
      [] ext = ".ts" -> "typescript" [] ext = ".md" -> "markdown"
      [] ext = ".go" -> "go" [] ext = ".rs" -> "rust" [] ext = ".java" -> "java"
      [] ext = ".c" -> "c" [] ext \in {".cpp", ".h", ".hpp"} -> "c++"
      [] OTHER -> "None"

\* file_path.replace(repo_path, '', 1); k tells the files of a tree apart
RelativePath(k, f) == <<k, f.dir, f.stem, f.ext>>
\* the chunks split_text gives for file k
SplitText(k, f) == [i \in 1 .. f.nchunks |-> <<k, i>>]

\* lines 262, 265: os.walk lists the tree lazily; f is the next file it
\* yields, and job[j].walked the files it has yielded so far
InWalk(j, f) ==
    /\ job[j].pc = "walk"
    /\ f \in FileKinds
    /\ FilesUsed < MaxFiles

\* lines 263, 268-269: the file is never opened
SkipFile(j, f) ==
    /\ InWalk(j, f)
    /\ Pruned(f) \/ Filtered(f)
    /\ job' = [job EXCEPT ![j].walked = Append(@, f)]
    /\ UNCHANGED <<nreq, response, code_chunks, dirs, faults, tool, walk, splitter>>

\* what the handler of lines 294-296 does with an exception of the try
\* block: it reads relative_path (path: its value when the exception came),
\* which is unbound until line 277 has run for some file; otherwise the file
\* loop goes on with the batch as the chunk loop left it
FileHandler(j, path, batch, entries) ==
    IF path = Unbound
    THEN Raised(j, "UnboundLocalError", entries)
    ELSE [job[j] EXCEPT !.relative_path = path, !.batch = batch,
                        !.calls = @ \o entries]

\* lines 272-273 raise
ReadError(j, f) ==
    /\ InWalk(j, f)
    /\ ~Pruned(f) /\ ~Filtered(f)
    /\ ~f.readable
    /\ job' = [job EXCEPT ![j] = [FileHandler(j, job[j].relative_path, job[j].batch, <<>>)
                                    EXCEPT !.walked = Append(@, f)]]
    /\ dirs' = IF job'[j].pc = "walk" THEN dirs ELSE ExitTempDir(j)
    /\ UNCHANGED <<nreq, response, code_chunks, faults, tool, walk, splitter>>

\* the batch items with repo_meta kept in a variable all jobs share: the
\* metadata is that of the job that cloned last
ItemsSharedMeta(j, k, f) ==
    LET cloned == {r \in Slots : job[r].repo_meta # <<>>}
        latest == CHOOSE r \in cloned : \A q \in cloned : q <= r
    IN  [i \in 1 .. f.nchunks |->
            [file_path |-> RelativePath(k, f), content |-> SplitText(k, f)[i],
             metadata  |-> [repo_name |-> job[latest].repo_meta.repo_name,
                            commit_hash |-> job[latest].repo_meta.commit_hash,
                            repo_url |-> job[latest].repo_meta.repo_url,
                            language |-> get_language_from_extension(f.ext)]]]

\* lines 283-287: the batch items of the chunks of file k
Items(j, k, f) ==
    [i \in 1 .. f.nchunks |->
        [file_path |-> RelativePath(k, f), content |-> SplitText(k, f)[i],
         metadata  |-> [repo_name |-> job[j].repo_meta.repo_name,
                        commit_hash |-> job[j].repo_meta.commit_hash,
                        repo_url |-> job[j].repo_meta.repo_url,
                        language |-> get_language_from_extension(f.ext)]]]

\* line 290
BatchFull(batch) == Len(batch) >= BATCH_SIZE

\* lines 282-292, the chunk loop of one file: every item is appended, a full
\* batch is flushed (os: the outcomes of the flushes, in order) and reset;
\* the first flush that raises ends the loop with the batch as it is.
\* calls, written: the requests issued and the records stored so far
RECURSIVE ChunkLoop(_, _, _, _, _)
ChunkLoop(batch, items, os, calls, written) ==
    IF items = <<>>
    THEN [exc |-> "None", batch |-> batch, os |-> os, calls |-> calls, written |-> written]
    ELSE LET appended == Append(batch, Head(items))
         IN  IF ~BatchFull(appended)
             THEN ChunkLoop(appended, Tail(items), os, calls, written)
             ELSE IF os = <<>>
             THEN [exc |-> "pending", batch |-> appended, os |-> os, calls |-> calls,
                   written |-> written]
             ELSE LET r == process_and_insert_batch(appended, Head(os))
                  IN  IF r.exc = "None"
                      THEN ChunkLoop(<<>>, Tail(items), Tail(os), calls \o r.calls,
                                     written \o r.written)
                      ELSE [exc |-> r.exc, batch |-> appended, os |-> Tail(os),
                            calls |-> calls \o r.calls, written |-> written]

Faults(os) == Cardinality({i \in DOMAIN os : os[i] # "ok"})

\* the job after the chunk loop of a file: an exception of a flush is an
\* exception of the try block of line 271
AfterChunkLoop(j, path, r) ==
    IF r.exc = "None"
    THEN [job[j] EXCEPT !.relative_path = path, !.batch = r.batch,
                        !.calls = @ \o r.calls]
    ELSE FileHandler(j, path, r.batch, r.calls)

\* lines 266-296 for a file that is read: one iteration of the file loop
ProcessFile(j, f, os) ==
    /\ InWalk(j, f)
    /\ ~Pruned(f) /\ ~Filtered(f)
    /\ f.readable
    /\ faults + Faults(os) <= MaxFaults
    /\ LET k == Len(job[j].walked) + 1
           r == ChunkLoop(job[j].batch, Items(j, k, f), os, <<>>, <<>>)
       IN  /\ r.exc # "pending" /\ r.os = <<>>
           /\ job' = [job EXCEPT ![j] = [AfterChunkLoop(j, RelativePath(k, f), r)
                                           EXCEPT !.walked = Append(@, f)]]
           /\ code_chunks' = code_chunks (+) BagOfSeq(r.written)
    /\ faults' = faults + Faults(os)
    /\ dirs' = IF job'[j].pc = "walk" THEN dirs ELSE ExitTempDir(j)
    /\ UNCHANGED <<nreq, response, tool, walk, splitter>>

\* the final flush with its exception swallowed: process_repository returns
\* and line 334 reports success
AfterFinalFlushSwallowed(j, r) ==
    [job[j] EXCEPT !.pc = "notify", !.status = "success", !.batch = <<>>,
                   !.temp_dir = NoDir,
                   !.calls = @ \o r.calls
                               \o <<[op |-> "rmtree", ok |-> TRUE, dir |-> job[j].temp_dir]>>]

\* process_repository returns and the job ends without line 334
AfterFinalFlushSilent(j, r) ==
    IF r.exc = "None"
    THEN [job[j] EXCEPT !.pc = "done", !.status = "success", !.batch = <<>>,
                        !.temp_dir = NoDir,
                        !.calls = @ \o r.calls
                                    \o <<[op |-> "rmtree", ok |-> TRUE, dir |-> job[j].temp_dir]>>]
    ELSE [job[j] EXCEPT !.pc = "notify", !.status = "failed", !.error_message = r.exc,
                        !.batch = <<>>, !.temp_dir = NoDir,
                        !.calls = @ \o r.calls
                                    \o <<[op |-> "rmtree", ok |-> TRUE, dir |-> job[j].temp_dir]>>]

\* the job after lines 298-307 and the end of the with block
AfterFinalFlush(j, r) ==
    IF r.exc = "None"
    THEN [job[j] EXCEPT !.pc = "notify", !.status = "success", !.batch = <<>>,
                        !.temp_dir = NoDir, !.calls = @ \o r.calls \o Rmtree(j)]
    ELSE Raised(j, r.exc, r.calls)

\* os.walk is exhausted; lines 298-300, then process_repository returns
FinalFlush(j, o) ==
    /\ job[j].pc = "walk"
    /\ o \in IF job[j].batch = <<>> THEN {"ok"} ELSE FlushOutcomes
    /\ Injected(o)
    /\ LET r == process_and_insert_batch(job[j].batch, o)
       IN  /\ job' = [job EXCEPT ![j] = AfterFinalFlush(j, r)]
           /\ code_chunks' = code_chunks (+) BagOfSeq(r.written)
    /\ dirs' = ExitTempDir(j)
    /\ UNCHANGED <<nreq, response, tool, walk, splitter>>

(* ----------------------- send_completion_email ------------------------- *)
Payload(j) ==
    [email |-> job[j].user_email, repo_url |-> job[j].repo_url,
     status |-> job[j].status, error_message |-> job[j].error_message]

\* send_completion_email without its except clause: the exception of the
\* invoke of line 334 reaches the handler of line 336, which notifies again
send_completion_email_raises(j, delivered) ==
    /\ job[j].pc = "notify"
    /\ delivered \in BOOLEAN
    /\ faults + (IF delivered THEN 0 ELSE 1) <= MaxFaults
    /\ faults' = faults + (IF delivered THEN 0 ELSE 1)
    /\ job' = [job EXCEPT
                  ![j].pc = IF ~delivered /\ job[j].status = "success" THEN "notify" ELSE "done",
                  ![j].status = IF delivered THEN @ ELSE "failed",
                  ![j].error_message = IF delivered THEN @ ELSE "NotificationError",
                  ![j].temp_dir = NoDir,
                  ![j].calls = @ \o <<[op |-> "notify", ok |-> delivered,
                                       data |-> [email |-> job[j].user_email,
                                                 repo_url |-> job[j].repo_url,
                                                 status |-> job[j].status,
                                                 error_message |-> job[j].error_message]]>>
                                 \o (IF job[j].temp_dir = NoDir THEN <<>>
                                     ELSE <<[op |-> "rmtree", ok |-> TRUE, dir |-> job[j].temp_dir]>>)]
    /\ dirs' = dirs \ {job[j].temp_dir}
    /\ UNCHANGED <<nreq, response, code_chunks, tool, walk, splitter>>

\* lines 160-185: the invoke succeeds (delivered) or raises, and both
\* return to the caller; async_ingest_repository then returns, and the
\* return of line 322 leaves the with block
send_completion_email(j, delivered) ==
    /\ job[j].pc = "notify"
    /\ delivered \in BOOLEAN
    /\ Injected(IF delivered THEN "ok" ELSE "notify_error")
    /\ job' = [job EXCEPT ![j].pc = "done", ![j].temp_dir = NoDir,
                  ![j].calls = Log(j, <<[op |-> "notify", ok |-> delivered, data |-> Payload(j)]>>
                                      \o Rmtree(j))]
    /\ dirs' = ExitTempDir(j)
    /\ UNCHANGED <<nreq, response, code_chunks, tool, walk, splitter>>

(* ------------- retrieval tools (backend/src/mcp_server.py) ------------- *)
\* rows one storage query returns
MaxRows == 3

MATCH_COUNT == 5
\* similarities are written in hundredths: 0.35 is 35
SIMILARITY_THRESHOLD == 35
NO_CONTEXT == "No relevant code context found."
ToolNames == {"get_code_context", "augment_prompt", "list_files"}

\* a string as runs <<token, repetitions>> of the tokens "0x" and " "
TokenLen(t) == IF t = "0x" THEN 2 ELSE 1
RECURSIVE StrLen(_)
StrLen(c) == IF c = <<>> THEN 0
             ELSE TokenLen(Head(c)[1]) * Head(c)[2] + StrLen(Tail(c))
\* content.count('0x')
RECURSIVE Count0x(_)
Count0x(c) == IF c = <<>> THEN 0
              ELSE (IF Head(c)[1] = "0x" THEN Head(c)[2] ELSE 0) + Count0x(Tail(c))
\* a string of so many markers and so many characters in all
Content(markers, length) == << <<"0x", markers>>, <<" ", length - 2 * markers>> >>

Float(hundredths) == [type |-> "float", v |-> hundredths]
NoneValue == [type |-> "NoneType"]

\* rows of match_code_chunks, without their id: similarity at, below and
\* above the threshold, absent and null; contents at both sides of the
\* marker floor and of the density ratio; a row without content
RowKinds ==
    {[file_path |-> "a.py", similarity |-> Float(90), content |-> Content(0, 40)],
     [file_path |-> "a.py", similarity |-> Float(35), content |-> Content(1, 40)],
     [file_path |-> "a.py", similarity |-> Float(34), content |-> Content(0, 40)],
     [file_path |-> "a.py", content |-> Content(0, 40)],
     [file_path |-> "a.py", similarity |-> NoneValue, content |-> Content(0, 40)],
     [file_path |-> "t.c", similarity |-> Float(90), content |-> Content(10, 20)],
     [file_path |-> "t.c", similarity |-> Float(90), content |-> Content(11, 22)],
     [file_path |-> "t.c", similarity |-> Float(90), content |-> Content(11, 5499)],
     [file_path |-> "t.c", similarity |-> Float(90), content |-> Content(11, 5500)],
     [file_path |-> "t.c", similarity |-> Float(34), content |-> Content(11, 22)],
     [file_path |-> "a.py", similarity |-> Float(90)]}

\* markers of the contents that probe the density test
MaxMarkers == 12
\* lengths of these contents: the shortest a marker count allows, the
\* ingestion chunk size, and both sides of 400, 500 and 550 characters per
\* marker for 11 and more markers
DensityLengths ==
    {1000} \cup UNION {{2 * m, 400 * m - 1, 400 * m, 500 * m - 1, 500 * m, 500 * m + 1}
                        : m \in 11 .. MaxMarkers}
\* rows that pass or meet the threshold, with every marker count up to
\* MaxMarkers at every such length
DensityKinds ==
    {[file_path |-> "t.c", similarity |-> Float(v), content |-> Content(m, l)] :
        <<v, m, l>> \in {t \in {SIMILARITY_THRESHOLD, 90} \X (0 .. MaxMarkers) \X DensityLengths :
                            2 * t[2] <= t[3]}}

\* the rows of one response: row i has id i
WithIds(kinds) == [i \in DOMAIN kinds |-> kinds[i] @@ [id |-> i]]
\* retrieved_chunks_response.data: None, or a list of at most MaxRows rows;
\* the density rows come one to a response
QueryData ==
    {Null} \cup {Some(WithIds(k)) : k \in SeqsUpTo(RowKinds, MaxRows)}
           \cup {Some(WithIds(<<r>>)) : r \in DensityKinds}

\* chunk.get(key, default)
Get(chunk, key, default) == IF key \in DOMAIN chunk THEN chunk[key] ELSE default

\* the density test with a ratio of 0.25 markers per 100 characters
HexRatioExceedsQuarter(hex_pattern_count, length) ==
    hex_pattern_count * 100 * 100 > 25 * length

\* lines 89-90: hex_pattern_count / (len(content) / 100) > 0.2, over the
\* rationals
HexRatioExceeds(hex_pattern_count, length) == hex_pattern_count * 100 * 10 > 2 * length

\* the hex filter dropping on either condition instead of both
FilterChunkEither(chunk) ==
    LET similarity == Get(chunk, "similarity", Float(0))
        content    == Get(chunk, "content", <<>>)
        hex_pattern_count == Count0x(content)
    IN  IF similarity.type # "float" THEN "TypeError"
        ELSE IF similarity.v < SIMILARITY_THRESHOLD THEN "skip"
        ELSE IF StrLen(content) > 0
                /\ (hex_pattern_count > 10 \/ hex_pattern_count * 100 * 10 > 2 * StrLen(content))
        THEN "skip"
        ELSE "keep"

\* lines 79-93 for one chunk: it is kept, skipped, or the comparison of
\* line 83 raises
FilterChunk(chunk) ==
    LET similarity == Get(chunk, "similarity", Float(0))
        content    == Get(chunk, "content", <<>>)
        hex_pattern_count == Count0x(content)
    IN  IF similarity.type # "float" THEN "TypeError"
        ELSE IF similarity.v < SIMILARITY_THRESHOLD THEN "skip"
        ELSE IF /\ hex_pattern_count > 10 /\ StrLen(content) > 0
                /\ HexRatioExceeds(hex_pattern_count, StrLen(content))
        THEN "skip"
        ELSE "keep"

\* lines 77-95: the loop over retrieved_chunks; exc: the exception it
\* raised (<<>>: none), value: filtered_chunks
RECURSIVE FilterChunks(_, _)
FilterChunks(chunks, filtered_chunks) ==
    IF chunks = <<>> THEN [exc |-> <<>>, value |-> filtered_chunks]
    ELSE LET decision == FilterChunk(Head(chunks))
         IN  IF decision = "keep"
             THEN FilterChunks(Tail(chunks), Append(filtered_chunks, Head(chunks)))
             ELSE IF decision = "skip"
             THEN FilterChunks(Tail(chunks), filtered_chunks)
             ELSE [exc |-> <<decision>>, value |-> <<>>]

\* line 97: retrieve_context wraps every exception of its body
Wrapped(e) == <<"Error retrieving context: ">> \o e

\* the filtered chunks returned best-first by a sort that puts the rows of
\* equal similarity in reverse
RetrievedChunksSorted(data) ==
    IF data = Null \/ data[1] = <<>> THEN [exc |-> <<>>, value |-> <<>>]
    ELSE LET r == FilterChunks(data[1], <<>>)
             n == Len(r.value)
             sorted == [i \in 1 .. n |->
                          r.value[CHOOSE k \in 1 .. n :
                              i = Cardinality({m \in 1 .. n :
                                    \/ r.value[m].similarity.v > r.value[k].similarity.v
                                    \/ /\ r.value[m].similarity.v = r.value[k].similarity.v
                                       /\ m >= k})]]
         IN  IF r.exc = <<>> THEN [exc |-> <<>>, value |-> sorted]
             ELSE [exc |-> <<"Error retrieving context: ">> \o r.exc, value |-> <<>>]

\* lines 71-97, once the storage query has returned data
RetrievedChunks(data) ==
    IF data = Null \/ data[1] = <<>> THEN [exc |-> <<>>, value |-> <<>>]
    ELSE LET r == FilterChunks(data[1], <<>>)
         IN  IF r.exc = <<>> THEN r ELSE [exc |-> Wrapped(r.exc), value |-> <<>>]

TextContent(text) == [type |-> "text", text |-> text]

\* a content as the strings of its runs
RECURSIVE Rendered(_)
Rendered(c) == IF c = <<>> THEN <<>>
               ELSE <<Head(c)[1], ToString(Head(c)[2])>> \o Rendered(Tail(c))

\* lines 162-167: the listing of get_code_context
RECURSIVE ContextText(_, _)
ContextText(chunks, i) ==
    IF chunks = <<>> THEN <<>>
    ELSE <<"## Context ", ToString(i), "**File:** ", Get(Head(chunks), "file_path", "Unknown"),
           "**Similarity:** ", ToString(Head(chunks).similarity.v)>>
         \o Rendered(Get(Head(chunks), "content", <<>>))
         \o ContextText(Tail(chunks), i + 1)

\* lines 34-55: chunk['content'] raises KeyError on a chunk without content
RECURSIVE Joined(_)
Joined(chunks) ==
    IF chunks = <<>> THEN <<>>
    ELSE Rendered(Head(chunks).content)
         \o (IF Tail(chunks) = <<>> THEN <<>> ELSE <<"---">> \o Joined(Tail(chunks)))
construct_augmented_prompt(original_code, context_chunks) ==
    IF \E i \in DOMAIN context_chunks : "content" \notin DOMAIN context_chunks[i]
    THEN [exc |-> <<"KeyError">>, value |-> <<>>]
    ELSE [exc |-> <<>>,
          value |-> <<"<USER_CODE>", original_code, "</USER_CODE>", "<CONTEXT>">>
                    \o Joined(context_chunks) \o <<"</CONTEXT>">>]

\* get_code_context without the test of line 152
FormattedListing(name, code_snippet, retrieved_chunks) ==
    IF name = "get_code_context"
    THEN [exc |-> <<>>,
          value |-> <<TextContent(<<"# Retrieved Code Context">>
                                  \o ContextText(retrieved_chunks, 1))>>]
    ELSE LET augmented_prompt == construct_augmented_prompt(code_snippet, retrieved_chunks)
         IN  IF augmented_prompt.exc # <<>> THEN augmented_prompt
             ELSE [exc |-> <<>>, value |-> <<TextContent(augmented_prompt.value)>>]

\* lines 152-174 and 186-193: what the try block of a tool does with the
\* chunks retrieve_context returned
Formatted(name, code_snippet, retrieved_chunks) ==
    IF name = "get_code_context"
    THEN IF retrieved_chunks = <<>>
         THEN [exc |-> <<>>, value |-> <<TextContent(<<NO_CONTEXT>>)>>]
         ELSE [exc |-> <<>>,
               value |-> <<TextContent(<<"# Retrieved Code Context">>
                                       \o ContextText(retrieved_chunks, 1))>>]
    ELSE LET augmented_prompt == construct_augmented_prompt(code_snippet, retrieved_chunks)
         IN  IF augmented_prompt.exc # <<>> THEN augmented_prompt
             ELSE [exc |-> <<>>, value |-> <<TextContent(augmented_prompt.value)>>]

\* lines 175-181 and 194-200: the except clause of a tool
Caught(name, e) ==
    IF name = "get_code_context"
    THEN <<TextContent(<<"Error retrieving context: ">> \o e)>>
    ELSE <<TextContent(<<"Error augmenting prompt: ">> \o e)>>

\* a tool without its except clause
ReturnedOrRaised(e, value) ==
    IF e = <<>> THEN [tool EXCEPT !.pc = "returned", !.result = value]
    ELSE [tool EXCEPT !.pc = "raised", !.exc = e]

\* the tool returns: its try block ended with exception e, or with value
Returned(e, value) ==
    [tool EXCEPT !.pc = "returned",
                 !.result = IF e = <<>> THEN value ELSE Caught(tool.name, e)]

\* the arguments of a call: None, or a dict of strings
ArgumentDicts ==
    {<<>>, [code_snippet |-> ""], [code_snippet |-> "def f():"], [language |-> "python"]}
Arguments == {Null} \cup {Some(d) : d \in ArgumentDicts}

\* handle_call_tool without the test of lines 145-146
handle_call_tool_unchecked(name, arguments) ==
    /\ tool.pc = "idle"
    /\ tool' =
          IF arguments = Null \/ arguments[1] = <<>>
          THEN [tool EXCEPT !.pc = "raised", !.name = name, !.arguments = arguments,
                            !.exc = <<"ValueError", "Missing arguments">>]
          ELSE IF name \in {"get_code_context", "augment_prompt"}
          THEN [tool EXCEPT !.pc = "embed", !.name = name, !.arguments = arguments,
                            !.code_snippet = Get(arguments[1], "code_snippet", "")]
          ELSE [tool EXCEPT !.pc = "raised", !.name = name, !.arguments = arguments,
                            !.code_snippet = Get(arguments[1], "code_snippet", ""),
                            !.exc = <<"ValueError", "Unknown tool: ", name>>]
    /\ UNCHANGED <<ingest_vars, walk, splitter>>

\* lines 136-150, 183-185, 202-203: validation and dispatch
handle_call_tool(name, arguments) ==
    /\ tool.pc = "idle"
    /\ tool' =
          IF arguments = Null \/ arguments[1] = <<>>
          THEN [tool EXCEPT !.pc = "raised", !.name = name, !.arguments = arguments,
                            !.exc = <<"ValueError", "Missing arguments">>]
          ELSE IF "code_snippet" \notin DOMAIN arguments[1] \/ arguments[1].code_snippet = ""
          THEN [tool EXCEPT !.pc = "raised", !.name = name, !.arguments = arguments,
                            !.exc = <<"ValueError", "Missing required argument: code_snippet">>]
          ELSE IF name \in {"get_code_context", "augment_prompt"}
          THEN [tool EXCEPT !.pc = "embed", !.name = name, !.arguments = arguments,
                            !.code_snippet = arguments[1].code_snippet]
          ELSE [tool EXCEPT !.pc = "raised", !.name = name, !.arguments = arguments,
                            !.code_snippet = arguments[1].code_snippet,
                            !.exc = <<"ValueError", "Unknown tool: ", name>>]
    /\ UNCHANGED <<ingest_vars, walk, splitter>>

\* lines 61-62: the embedding request raises, or returns no vector
\* (response.data[0] raises IndexError), or returns the query embedding
EmbedOutcomes == {"ok", "error", "empty"}
embeddings_create(o) ==
    /\ tool.pc = "embed"
    /\ LET call == [op |-> "embed", outcome |-> o, input |-> tool.code_snippet]
       IN  tool' =
             IF o = "ok" THEN [tool EXCEPT !.pc = "query", !.calls = Append(@, call)]
             ELSE [Returned(Wrapped(IF o = "error" THEN <<"APIError">> ELSE <<"IndexError">>),
                            <<>>)
                      EXCEPT !.calls = Append(@, call)]
    /\ UNCHANGED <<ingest_vars, walk, splitter>>

\* lines 65-97 and the rest of the tool: the storage query raises or
\* returns data; the rows are filtered and the answer is formatted
match_code_chunks(ok, data) ==
    /\ tool.pc = "query"
    /\ ~ok => data = Null
    /\ LET call == [op |-> "rpc", outcome |-> IF ok THEN "ok" ELSE "error",
                    match_count |-> MATCH_COUNT]
           retrieved == IF ok THEN RetrievedChunks(data)
                        ELSE [exc |-> Wrapped(<<"APIError">>), value |-> <<>>]
           formatted == IF retrieved.exc # <<>> THEN retrieved
                        ELSE Formatted(tool.name, tool.code_snippet, retrieved.value)
       IN  tool' = [Returned(formatted.exc, formatted.value)
                      EXCEPT !.calls = Append(@, call),
                             !.rows = IF ok THEN data ELSE Null,
                             !.retrieved = IF retrieved.exc = <<>>
                                           THEN Some(retrieved.value) ELSE Null]
    /\ UNCHANGED <<ingest_vars, walk, splitter>>

ToolNext ==
    \/ \E name \in ToolNames, arguments \in Arguments : handle_call_tool(name, arguments)
    \/ \E o \in EmbedOutcomes : embeddings_create(o)
    \/ \E ok \in BOOLEAN, data \in QueryData : match_code_chunks(ok, data)

(* -------------- the directory walk of process_repository --------------- *)
\* depth of the directories of a tree, and number of its files
MaxDepth == 2
MaxTreeFiles == 2

\* the names os.listdir can give, in the order it gives them
DirNameList == <<"node_modules", "src">>
FileNames == {<<"mod", ".py">>, <<"yarn", ".lock">>, <<"logo", ".png">>}
\* a tree is the set of its files; dir: the directories from the root down
TreePaths ==
    {[dir |-> d, stem |-> n[1], ext |-> n[2]] :
        d \in SeqsUpTo(Range(DirNameList), MaxDepth), n \in FileNames}
Trees == {Range(s) : s \in SeqsUpTo(TreePaths, MaxTreeFiles)}

\* the directories and the files os.walk lists for root
IsUnder(f, root) ==
    Len(f.dir) > Len(root) /\ SubSeq(f.dir, 1, Len(root)) = root
SubDirs(tree, root) ==
    SelectSeq(DirNameList,
              LAMBDA d : \E f \in tree : IsUnder(f, root) /\ f.dir[Len(root) + 1] = d)
FilesIn(tree, root) == {f \in tree : f.dir = root}

\* the walk without line 263
KeptDirsAll(ds) == ds

\* line 263: dirs[:] = [d for d in dirs if d not in IGNORE_DIRECTORIES]
KeptDirs(ds) == SelectSeq(ds, LAMBDA d : d \notin IGNORE_DIRECTORIES)

\* line 262: os.walk(repo_path, topdown=True) starts at the root
os_walk(tree) ==
    /\ walk.pc = "idle"
    /\ walk' = [walk EXCEPT !.pc = "walking", !.tree = tree, !.stack = << <<>> >>]
    /\ UNCHANGED <<ingest_vars, tool, splitter>>

\* lines 262-269, one iteration of the outer loop: os.walk lists the next
\* directory, the body prunes its dirs and opens the files that pass line
\* 268, and os.walk goes on with the directories that are left in dirs
WalkDirectory ==
    /\ walk.pc = "walking"
    /\ LET root  == Head(walk.stack)
           ds    == KeptDirs(SubDirs(walk.tree, root))
           below == [i \in DOMAIN ds |-> Append(root, ds[i])]
           stack == below \o Tail(walk.stack)
       IN  walk' = [walk EXCEPT
                       !.listed = Append(@, root),
                       !.opened = @ \cup {f \in FilesIn(walk.tree, root) : ~Filtered(f)},
                       !.stack = stack,
                       !.pc = IF stack = <<>> THEN "done" ELSE "walking"]
    /\ UNCHANGED <<ingest_vars, tool, splitter>>

WalkNext ==
    \/ \E tree \in Trees : os_walk(tree)
    \/ WalkDirectory

(* ---------------- the text splitter of process_repository -------------- *)
\* line 257 builds langchain's RecursiveCharacterTextSplitter with
\* chunk_size and chunk_overlap and the defaults of the class: the separators
\* "\n\n", "\n", " ", "", keep_separator and strip_whitespace on, lengths in
\* characters; line 275 calls its split_text.  A text is the sequence of its
\* characters.
\* length of a text
MaxText == 6
\* ingest.py:109-110 set 1000 and 100; scaled down for the model
CHUNK_SIZE == 4
CHUNK_OVERLAP == 1

Chars == {"a", " ", "\n"}
Texts == SeqsUpTo(Chars, MaxText)
Separators == << <<"\n", "\n">>, <<"\n">>, <<" ">>, <<>> >>

\* str.strip()
IsSpace(c) == c \in {" ", "\n"}
RECURSIVE LStrip(_)
LStrip(t) == IF t # <<>> /\ IsSpace(Head(t)) THEN LStrip(Tail(t)) ELSE t
RECURSIVE RStrip(_)
RStrip(t) == IF t # <<>> /\ IsSpace(t[Len(t)]) THEN RStrip(SubSeq(t, 1, Len(t) - 1)) ELSE t
Strip(t) == RStrip(LStrip(t))

\* re.search: the first position of separator in text, 0 if there is none
Search(text, separator) ==
    LET at == {i \in 1 .. (Len(text) - Len(separator) + 1) :
                  SubSeq(text, i, i + Len(separator) - 1) = separator}
    IN  IF at = {} THEN 0 ELSE CHOOSE i \in at : \A k \in at : i <= k
\* the texts between the occurrences of separator, from left to right
RECURSIVE Between(_, _)
Between(text, separator) ==
    LET i == Search(text, separator)
    IN  IF i = 0 THEN <<text>>
        ELSE <<SubSeq(text, 1, i - 1)>>
             \o Between(SubSeq(text, i + Len(separator), Len(text)), separator)
\* _split_text_with_regex with keep_separator: every split but the first
\* begins with the separator; empty splits are left out; the empty separator
\* splits into characters
split_text_with_regex(text, separator) ==
    IF separator = <<>> THEN [i \in 1 .. Len(text) |-> <<text[i]>>]
    ELSE LET parts  == Between(text, separator)
             splits == [i \in 1 .. Len(parts) |->
                           IF i = 1 THEN parts[1] ELSE separator \o parts[i]]
         IN  SelectSeq(splits, LAMBDA x : x # <<>>)

RECURSIVE Join(_)
Join(docs) == IF docs = <<>> THEN <<>> ELSE Head(docs) \o Join(Tail(docs))
\* _join_docs without strip_whitespace
join_docs_unstripped(docs) ==
    IF Join(docs) = <<>> THEN <<>> ELSE <<Join(docs)>>

\* _join_docs: the joined splits, stripped; nothing when that is empty
join_docs(docs) ==
    IF Strip(Join(docs)) = <<>> THEN <<>> ELSE <<Strip(Join(docs))>>

\* the while loop of _merge_splits: splits are dropped from the front of
\* current_doc until at most chunk_overlap characters are kept and the
\* next split fits
RECURSIVE PopFront(_, _, _)
PopFront(current_doc, total, len) ==
    IF total > CHUNK_OVERLAP \/ (total + len > CHUNK_SIZE /\ total > 0)
    THEN PopFront(Tail(current_doc), total - Len(Head(current_doc)), len)
    ELSE [current_doc |-> current_doc, total |-> total]

\* _merge_splits with the empty separator
RECURSIVE merge_splits(_, _, _, _)
merge_splits(splits, docs, current_doc, total) ==
    IF splits = <<>> THEN docs \o join_docs(current_doc)
    ELSE LET d == Head(splits)
         IN  IF total + Len(d) > CHUNK_SIZE /\ current_doc # <<>>
             THEN LET kept == PopFront(current_doc, total, Len(d))
                  IN  merge_splits(Tail(splits), docs \o join_docs(current_doc),
                                   Append(kept.current_doc, d), kept.total + Len(d))
             ELSE merge_splits(Tail(splits), docs, Append(current_doc, d), total + Len(d))

\* _split_text: the first separator that occurs in the text splits it; the
\* splits shorter than chunk_size are merged, the others are split again
\* with the separators that are left
RECURSIVE split_text_with(_, _)
RECURSIVE SplitLoop(_, _, _, _)
SplitLoop(splits, good_splits, final_chunks, new_separators) ==
    LET merged == IF good_splits = <<>> THEN <<>>
                  ELSE merge_splits(good_splits, <<>>, <<>>, 0)
    IN  IF splits = <<>> THEN final_chunks \o merged
        ELSE IF Len(Head(splits)) < CHUNK_SIZE
        THEN SplitLoop(Tail(splits), Append(good_splits, Head(splits)), final_chunks,
                       new_separators)
        ELSE SplitLoop(Tail(splits), <<>>,
                       final_chunks \o merged
                           \o (IF new_separators = <<>> THEN <<Head(splits)>>
                               ELSE split_text_with(Head(splits), new_separators)),
                       new_separators)
split_text_with(text, separators) ==
    LET found == {i \in DOMAIN separators :
                     separators[i] = <<>> \/ Search(text, separators[i]) > 0}
        k == IF found = {} THEN Len(separators)
             ELSE CHOOSE i \in found : \A m \in found : i <= m
        new_separators == IF found = {} \/ separators[k] = <<>> THEN <<>>
                          ELSE SubSeq(separators, k + 1, Len(separators))
    IN  SplitLoop(split_text_with_regex(text, separators[k]), <<>>, <<>>, new_separators)

\* line 275: chunks = text_splitter.split_text(content)
split_text(text) ==
    /\ splitter.pc = "idle"
    /\ splitter' = [pc |-> "done", text |-> text,
                    chunks |-> split_text_with(text, Separators)]
    /\ UNCHANGED <<ingest_vars, tool, walk>>

SplitNext == \E text \in Texts : split_text(text)

(* --------------------------- specification ----------------------------- *)
JobStep(j) ==
    \/ \E d \in DirNames : EnterTempDir(j, d)
    \/ \E head \in Commits : CloneOk(j, head)
    \/ CloneFailed(j)
    \/ \E f \in FileKinds : SkipFile(j, f)
    \/ \E f \in FileKinds : ReadError(j, f)
    \/ \E f \in FileKinds, os \in SeqsUpTo(FlushOutcomes, MaxChunks) : ProcessFile(j, f, os)
    \/ \E o \in FlushOutcomes : FinalFlush(j, o)
    \/ \E delivered \in BOOLEAN : send_completion_email(j, delivered)

Next ==
    \/ \E data \in Bodies : ingest_endpoint(data)
    \/ \E j \in Slots : JobStep(j)

Spec == Init /\ [][Next]_vars

\* every started thread is scheduled, and every call it makes returns
FairSpec == Spec /\ \A j \in Slots : WF_vars(JobStep(j))

\* one call of a retrieval tool
ToolSpec == Init /\ [][ToolNext]_vars

\* the walk of one repository tree
WalkSpec == Init /\ [][WalkNext]_vars

\* the chunks of one text
SplitSpec == Init /\ [][SplitNext]_vars

(* ------------------------------ claims --------------------------------- *)
Terminal(st) == st \in {"success", "failed"}
Calls(j, ops) == SelectSeq(job[j].calls, LAMBDA c : c.op \in ops)
Notifications(j) == Calls(j, {"notify"})
\* indices of the requests of a flush that failed
FailedRequests(j) ==
    {i \in DOMAIN job[j].calls :
        job[j].calls[i].op \in {"embed", "insert"} /\ ~job[j].calls[i].ok}

\* C1: once an embedding request or a storage insert of a job has failed, the
\* job is 'failed' and has issued no embedding request or insert after it
C1_FlushFailureAbortsJob ==
    \A j \in Slots : \A i \in FailedRequests(j) :
        /\ job[j].status = "failed"
        /\ \A k \in DOMAIN job[j].calls :
              k > i => job[j].calls[k].op \notin {"embed", "insert"}

\* C2: a job has never issued two notifications, a job that has returned has
\* issued one, and a notification carries the job's repo_url, user_email and
\* terminal status, and an error description exactly when it is 'failed'
C2_ExactlyOneNotification ==
    \A j \in Slots :
        /\ Len(Notifications(j)) <= 1
        /\ job[j].pc = "done" => Len(Notifications(j)) = 1
        /\ \A i \in DOMAIN Notifications(j) :
              LET n == Notifications(j)[i].data
              IN  /\ n.repo_url = job[j].repo_url
                  /\ n.email = job[j].user_email
                  /\ Terminal(n.status) /\ n.status = job[j].status
                  /\ (n.error_message # "None") <=> (n.status = "failed")

\* a job notified of a clone failure, and another one of its success
C2_Witness ==
    \E j, k \in Slots :
        /\ job[j].pc = "done" /\ job[j].error_message = CLONE_FAILED
        /\ job[k].pc = "done" /\ job[k].status = "success"

\* the records the successful inserts of all jobs carried
InsertedBy(j) ==
    LET ok == SelectSeq(job[j].calls, LAMBDA c : c.op = "insert" /\ c.ok)
        Sum[i \in 0 .. Len(ok)] ==
            IF i = 0 THEN EmptyBag ELSE Sum[i - 1] (+) BagOfSeq(ok[i].data)
    IN  Sum[Len(ok)]
Inserted ==
    LET Sum[j \in 0 .. MaxJobs] == IF j = 0 THEN EmptyBag ELSE Sum[j - 1] (+) InsertedBy(j)
    IN  Sum[MaxJobs]

\* C3: an insert directly follows a successful embedding request of the same
\* flush and has one record per input of that request, in order; a failed
\* embedding request is followed by no insert; the table holds exactly the
\* records of the inserts that succeeded, each of them whole
C3_FlushAllOrNothing ==
    /\ \A j \in Slots : \A i \in DOMAIN job[j].calls :
          LET c == job[j].calls[i]
          IN  /\ c.op = "insert" =>
                    /\ i > 1
                    /\ job[j].calls[i - 1].op = "embed" /\ job[j].calls[i - 1].ok
                    /\ c.n = job[j].calls[i - 1].n /\ Len(c.data) = c.n
                    /\ \A p \in 1 .. c.n : c.data[p].content = job[j].calls[i - 1].data[p]
              /\ (c.op = "embed" /\ ~c.ok /\ i < Len(job[j].calls)) =>
                    job[j].calls[i + 1].op # "insert"
    /\ code_chunks = Inserted

\* a flush of a full batch whose insert failed, after one that was stored
C3_Witness ==
    \E j \in Slots : \E i, k \in DOMAIN job[j].calls :
        /\ job[j].calls[i].op = "insert" /\ ~job[j].calls[i].ok /\ job[j].calls[i].n > 1
        /\ job[j].calls[k].op = "insert" /\ job[j].calls[k].ok
        /\ code_chunks # EmptyBag

\* the files of the walk that were opened and read
ReadFiles(j) ==
    {k \in DOMAIN job[j].walked :
        LET f == job[j].walked[k] IN ~Pruned(f) /\ ~Filtered(f) /\ f.readable}
\* M: the chunks the walk has yielded
Yielded(j) ==
    LET Sum[k \in 0 .. Len(job[j].walked)] ==
            IF k = 0 THEN 0
            ELSE Sum[k - 1] + (IF k \in ReadFiles(j) THEN job[j].walked[k].nchunks ELSE 0)
    IN  Sum[Len(job[j].walked)]
Ceil(m, n) == (m + n - 1) \div n
\* process_repository was entered and has been left
WalkEnded(j) == job[j].pc \in {"notify", "done"} /\ Calls(j, {"metadata"}) # <<>>
\* indices of the embedding requests that returned too few vectors: no
\* insert follows them
ShortResponses(j) ==
    {i \in DOMAIN job[j].calls :
        /\ job[j].calls[i].op = "embed" /\ job[j].calls[i].ok
        /\ i = Len(job[j].calls) \/ job[j].calls[i + 1].op # "insert"}
\* every flush of the job got its embeddings and its insert
NoFlushFailed(j) == FailedRequests(j) = {} /\ ShortResponses(j) = {}

\* C4: a walk without a failed embedding or storage call that yields M chunks
\* issues ceil(M / N) embedding requests and as many inserts, alternating; all
\* but the last carry N items, the last the remainder, every insert as many
\* records as its request; with M = 0 there is none and the job is 'success'
C4_CeilBatches ==
    \A j \in Slots : (WalkEnded(j) /\ NoFlushFailed(j)) =>
        LET M == Yielded(j)
            flush == Calls(j, {"embed", "insert"})
            E == Ceil(M, BATCH_SIZE)
        IN  /\ Len(flush) = 2 * E
            /\ \A b \in 1 .. E :
                  /\ flush[2 * b - 1].op = "embed" /\ flush[2 * b].op = "insert"
                  /\ flush[2 * b - 1].n = IF b < E THEN BATCH_SIZE ELSE M - BATCH_SIZE * (E - 1)
                  /\ flush[2 * b].n = flush[2 * b - 1].n
            /\ M = 0 => job[j].status = "success"

\* C5: the batch never holds more than BATCH_SIZE items, no embedding request
\* carries more than BATCH_SIZE inputs, and the batch is empty right after a
\* flush, failed ones included
C5_BatchWithinCapacity ==
    \A j \in Slots :
        /\ Len(job[j].batch) <= BATCH_SIZE
        /\ \A i \in DOMAIN job[j].calls :
              job[j].calls[i].op = "embed" => job[j].calls[i].n <= BATCH_SIZE
        /\ Len(job[j].calls) \in FailedRequests(j) => job[j].batch = <<>>

\* C6: a file that cannot be read puts no chunk into a batch, and a job never
\* ends 'failed' unless its clone or one of its flushes has failed
C6_ReadErrorContained ==
    \A j \in Slots :
        /\ \A i \in DOMAIN job[j].batch : job[j].batch[i].content[1] \in ReadFiles(j)
        /\ \A i \in DOMAIN job[j].calls :
              job[j].calls[i].op = "embed" =>
                  \A p \in DOMAIN job[j].calls[i].data :
                      job[j].calls[i].data[p][1] \in ReadFiles(j)
        /\ job[j].status = "failed" =>
              job[j].error_message \in {CLONE_FAILED, "EmbeddingError", "InsertError", "IndexError"}

CloneHasFailed(j) ==
    \E i \in DOMAIN job[j].calls : job[j].calls[i].op = "clone" /\ ~job[j].calls[i].ok
StatusSteps ==
    {<<"none", "pending">>, <<"pending", "cloning">>, <<"cloning", "processing">>,
     <<"cloning", "failed">>, <<"processing", "success">>, <<"processing", "failed">>}
\* a job whose clone failed has done nothing but the clone and reports it
CloneFailureSkipsProcessing ==
    \A j \in Slots : CloneHasFailed(j) =>
        /\ job[j].status = "failed"
        /\ Calls(j, {"metadata", "embed", "insert"}) = <<>>
        /\ job[j].walked = <<>>
        /\ \A i \in DOMAIN Notifications(j) :
              Notifications(j)[i].data.error_message = CLONE_FAILED

\* C7: a status changes only along pending -> cloning -> processing ->
\* success | failed, or cloning -> failed; a terminal status never changes; a
\* job whose clone failed has looked up no metadata, walked no file, issued no
\* embedding request or insert, and its notification carries the clone text
C7_StatusMachine ==
    /\ [][\A j \in Slots : job'[j].status # job[j].status =>
              <<job[j].status, job'[j].status>> \in StatusSteps]_vars
    /\ []CloneFailureSkipsProcessing

\* a job that returned after its clone failed
C7_Witness ==
    \E j \in Slots : job[j].pc = "done" /\ CloneHasFailed(j) /\ Notifications(j) # <<>>

Held == {job[j].temp_dir : j \in Slots} \ {NoDir}

\* C8: a job acquires one temporary directory, a job that has returned holds
\* none and has removed the one it acquired, two jobs never hold the same
\* one, and no directory is on disk that no job holds
C8_TempDirReleased ==
    /\ \A j \in Slots :
          /\ Len(Calls(j, {"mkdtemp"})) = IF job[j].pc \in {"none", "pending"} THEN 0 ELSE 1
          /\ job[j].pc = "done" =>
                /\ job[j].temp_dir = NoDir
                /\ Len(Calls(j, {"rmtree"})) = 1
                /\ Calls(j, {"rmtree"})[1].dir = Calls(j, {"mkdtemp"})[1].dir
          /\ \A k \in Slots : (j # k /\ job[j].temp_dir # NoDir) =>
                job[j].temp_dir # job[k].temp_dir
    /\ dirs = Held

\* two jobs that held different directories at once and have both returned,
\* one after a failed clone, one after an exception of the processing
C8_Witness ==
    \E j, k \in Slots :
        /\ job[j].pc = "done" /\ job[k].pc = "done"
        /\ CloneHasFailed(j)
        /\ job[k].error_message \notin {"None", CLONE_FAILED}
        /\ Calls(j, {"mkdtemp"})[1].dir # Calls(k, {"mkdtemp"})[1].dir

\* C9: a notification that fails leaves the job's status as it was, is not
\* repeated, and the job returns
C9_NotificationFailureAbsorbed ==
    \A j \in Slots : \A i \in DOMAIN Notifications(j) :
        ~Notifications(j)[i].ok =>
            /\ job[j].pc = "done"
            /\ job[j].status = Notifications(j)[i].data.status
            /\ Len(Notifications(j)) = 1

\* a job that succeeded and whose notification failed
C9_Witness ==
    \E j \in Slots :
        /\ job[j].status = "success"
        /\ \E i \in DOMAIN Notifications(j) : ~Notifications(j)[i].ok

Finished(j) ==
    job[j].pc = "done" /\ Terminal(job[j].status) /\ Len(Notifications(j)) = 1

\* C10: under FairSpec every request answered 202 leads to its job having a
\* terminal status and a notification attempted
C10_AcceptedJobTerminates ==
    \A r \in Slots : (response[r] = 202) ~> Finished(r)

\* two accepted jobs that have both finished
C10_Witness ==
    \A r \in Slots : response[r] = 202 /\ Finished(r)

\* the body has both fields, present and non-empty
ValidBody(data) ==
    data.kind = "dict" /\ data.repo_url # Missing /\ data.user_email # Missing

\* C11: a request with both fields starts exactly one job and is answered 202
\* while that job has done nothing yet; any other request (no body, a field
\* missing or empty) is answered 4xx and starts no job; a request that was not
\* answered 202 has no job
C11_RequestBoundary ==
    /\ [][\A data \in Bodies : ingest_endpoint(data) =>
            IF ValidBody(data)
            THEN /\ response'[nreq'] = 202
                 /\ job'[nreq'].pc = "pending" /\ job'[nreq'].calls = <<>>
                 /\ \A k \in Slots \ {nreq'} : job'[k] = job[k]
            ELSE /\ response'[nreq'] \in 400 .. 499
                 /\ job' = job]_vars
    /\ [](\A r \in Slots : response[r] # 202 => job[r] = NoJob)

\* C19: record i of an insert has the file_path, content and metadata of item
\* i of the flushed batch and vector i of the response to the embedding
\* request before it; a response with fewer vectors than inputs is followed by
\* no insert; every stored record holds the vector of its own content
C19_PositionalPairing ==
    /\ \A j \in Slots : \A i \in DOMAIN job[j].calls :
          LET c == job[j].calls[i]
          IN  /\ c.op = "insert" =>
                    /\ i > 1 /\ job[j].calls[i - 1].op = "embed"
                    /\ Len(c.data) = Len(c.batch)
                    /\ Len(job[j].calls[i - 1].resp) >= Len(c.batch)
                    /\ \A p \in DOMAIN c.batch :
                          /\ c.data[p].file_path = c.batch[p].file_path
                          /\ c.data[p].content = c.batch[p].content
                          /\ c.data[p].metadata = c.batch[p].metadata
                          /\ c.data[p].embedding = job[j].calls[i - 1].resp[p]
              /\ (c.op = "embed" /\ c.ok /\ Len(c.resp) < c.n /\ i < Len(job[j].calls)) =>
                    job[j].calls[i + 1].op # "insert"
    /\ \A rec \in BagToSet(code_chunks) : rec.embedding = <<"vec", rec.content>>

\* a stored insert of two records of different files, and a flush of two
\* items whose response held one vector
C19_Witness ==
    /\ \E j \in Slots : \E i \in DOMAIN job[j].calls :
          /\ job[j].calls[i].op = "insert" /\ job[j].calls[i].ok /\ job[j].calls[i].n = 2
          /\ job[j].calls[i].data[1].file_path # job[j].calls[i].data[2].file_path
    /\ \E j \in Slots : \E i \in DOMAIN job[j].calls :
          /\ job[j].calls[i].op = "embed" /\ job[j].calls[i].n = 2
          /\ Len(job[j].calls[i].resp) = 1

\* the stored records of job j that hold chunk i of the k-th file of its walk
StoredCopies(j, k, i) ==
    LET ok == SelectSeq(job[j].calls, LAMBDA c : c.op = "insert" /\ c.ok)
        Sum[n \in 0 .. Len(ok)] ==
            IF n = 0 THEN 0
            ELSE Sum[n - 1] + Cardinality({p \in DOMAIN ok[n].data :
                                              ok[n].data[p].content = <<k, i>>})
    IN  Sum[Len(ok)]

\* C20: a job that ends 'success' has stored every chunk of every file it
\* read exactly once
C20_SuccessMeansComplete ==
    \A j \in Slots : job[j].status = "success" =>
        \A k \in ReadFiles(j) : \A i \in 1 .. job[j].walked[k].nchunks :
            StoredCopies(j, k, i) = 1

\* the embedding requests and inserts of job j before entry i of its log
FlushesBefore(j, i) ==
    SelectSeq(SubSeq(job[j].calls, 1, i - 1), LAMBDA c : c.op \in {"embed", "insert"})

\* C21: after its notification a job issues no clone, embedding request or
\* insert, reads no further file and puts nothing into its batch; a 'success'
\* notification comes after the walk, with the batch empty and the last flush
\* before it ended by an insert that succeeded
C21_NotificationIsLast ==
    /\ [][\A j \in Slots : Notifications(j) # <<>> =>
              /\ job'[j].walked = job[j].walked /\ job'[j].batch = job[j].batch
              /\ \A k \in DOMAIN job'[j].calls :
                    k > Len(job[j].calls) =>
                        job'[j].calls[k].op \notin {"clone", "metadata", "embed", "insert"}]_vars
    /\ [](\A j \in Slots : \A i \in DOMAIN job[j].calls :
              job[j].calls[i].op = "notify" =>
                  /\ \A k \in DOMAIN job[j].calls :
                        k > i => job[j].calls[k].op \notin {"clone", "embed", "insert"}
                  /\ job[j].calls[i].data.status = "success" =>
                        /\ WalkEnded(j) /\ job[j].batch = <<>>
                        /\ FlushesBefore(j, i) # <<>> =>
                              LET last == FlushesBefore(j, i)[Len(FlushesBefore(j, i))]
                              IN  last.op = "insert" /\ last.ok)

\* a job notified of its success after an insert, and a job whose directory
\* was removed after the notification of its clone failure
C21_Witness ==
    /\ \E j \in Slots :
          /\ job[j].pc = "done" /\ job[j].status = "success"
          /\ Calls(j, {"insert"}) # <<>>
    /\ \E j \in Slots :
          /\ job[j].pc = "done" /\ CloneHasFailed(j)
          /\ job[j].calls[Len(job[j].calls)].op = "rmtree"

\* the item is chunk i of a file job j has read, with that job's metadata
ProducedBy(j, item) ==
    \E k \in ReadFiles(j) : \E i \in 1 .. job[j].walked[k].nchunks :
        /\ item.content = <<k, i>>
        /\ item.file_path = <<k, job[j].walked[k].dir, job[j].walked[k].stem,
                               job[j].walked[k].ext>>
        /\ item.metadata.repo_url = job[j].repo_url
        /\ item.metadata.repo_name =
              SelectSeq(job[j].repo_url[Len(job[j].repo_url)], LAMBDA t : t # ".git")
        /\ item.metadata.commit_hash = job[j].head

\* C22: every item of a job's batch and every record of its inserts is a
\* chunk that job produced and carries its repo_name, commit_hash and
\* repo_url; a step changes at most one job, and the job of a rejected or
\* later request never another one's
C22_BatchesAreJobLocal ==
    /\ [][\A j, k \in Slots : (j # k /\ job'[j] # job[j]) => job'[k] = job[k]]_vars
    /\ [](\A j \in Slots :
              /\ \A p \in DOMAIN job[j].batch : ProducedBy(j, job[j].batch[p])
              /\ \A i \in DOMAIN job[j].calls :
                    job[j].calls[i].op = "insert" =>
                        \A p \in DOMAIN job[j].calls[i].data :
                            ProducedBy(j, job[j].calls[i].data[p]))

\* two jobs of one repository running at once: one has failed on a batch
\* and the other is still walking with records
\* stored
C22_Witness ==
    \E j, k \in Slots :
        /\ j # k /\ job[j].repo_url = job[k].repo_url
        /\ job[j].status = "failed"
        /\ \E i \in DOMAIN job[j].calls : job[j].calls[i].op \in {"embed", "insert"} /\ ~job[j].calls[i].ok
        /\ job[k].pc = "walk"
        /\ \E i \in DOMAIN job[k].calls : job[k].calls[i].op = "insert" /\ job[k].calls[i].ok

(* ------------------------ claims: retrieval ---------------------------- *)
\* the rows of the storage response, and the chunks retrieve_context returned
Rows == IF tool.rows = Null THEN <<>> ELSE tool.rows[1]
Output == tool.retrieved[1]

\* C12: what retrieve_context returns is made of rows of the storage response,
\* each at most once and in the order of the response, and every one of them
\* has a similarity, which is not below SIMILARITY_THRESHOLD
C12_FilterKeepsOrder ==
    tool.retrieved # Null =>
        /\ \A i \in DOMAIN Output :
              /\ Output[i].id \in DOMAIN Rows /\ Rows[Output[i].id] = Output[i]
              /\ "similarity" \in DOMAIN Output[i]
              /\ Output[i].similarity.v >= SIMILARITY_THRESHOLD
        /\ \A i, k \in DOMAIN Output : i < k => Output[i].id < Output[k].id

\* three rows of which the second has no similarity and the third is below
\* the threshold, or three rows that are all returned
C12_Witness ==
    /\ tool.retrieved # Null /\ Len(Rows) = 3
    /\ \/ /\ "similarity" \notin DOMAIN Rows[2]
          /\ Len(Output) = 2 /\ Output[1].id = 1 /\ Output[2].id = 3
       \/ Len(Output) = 3 /\ Output[3].similarity.v = SIMILARITY_THRESHOLD

\* the number of '0x' markers of a content, and its length
Markers(content) ==
    LET Sum[i \in 0 .. Len(content)] ==
            IF i = 0 THEN 0
            ELSE Sum[i - 1] + (IF content[i][1] = "0x" THEN content[i][2] ELSE 0)
    IN  Sum[Len(content)]
Length(content) ==
    LET Sum[i \in 0 .. Len(content)] ==
            IF i = 0 THEN 0
            ELSE Sum[i - 1] + content[i][2] * (IF content[i][1] = "0x" THEN 2 ELSE 1)
    IN  Sum[Len(content)]
\* more than 0.2 markers per 100 characters: markers / (length / 100) > 1/5
Dense(content) == 500 * Markers(content) > Length(content)
PassesThreshold(row) ==
    "similarity" \in DOMAIN row /\ row.similarity.type = "float"
    /\ row.similarity.v >= SIMILARITY_THRESHOLD
ContentOf(row) == IF "content" \in DOMAIN row THEN row.content ELSE <<>>

Removed(row) ==
    \/ "similarity" \notin DOMAIN row
    \/ row.similarity.type = "float" /\ row.similarity.v < SIMILARITY_THRESHOLD
    \/ PassesThreshold(row) /\ Markers(ContentOf(row)) > 10 /\ Dense(ContentOf(row))
QueryReturned ==
    tool.pc = "returned" /\ \E i \in DOMAIN tool.calls :
        tool.calls[i].op = "rpc" /\ tool.calls[i].outcome = "ok"

\* C14: when the storage query returns nothing, or only rows the filters
\* remove, retrieve_context returns the empty sequence, and get_code_context
\* answers with one text block holding the no-context message
C14_EmptyIsNotAnError ==
    (QueryReturned /\ \A k \in DOMAIN Rows : Removed(Rows[k])) =>
        /\ tool.retrieved = Some(<<>>)
        /\ tool.name = "get_code_context" =>
              tool.result = <<[type |-> "text", text |-> <<"No relevant code context found.">>]>>

\* get_code_context on a response whose rows are all removed, one by each
\* filter and one for its missing similarity
C14_Witness ==
    /\ QueryReturned /\ tool.name = "get_code_context" /\ Len(Rows) = 3
    /\ "similarity" \notin DOMAIN Rows[1]
    /\ PassesThreshold(Rows[2]) /\ Removed(Rows[2])
    /\ ~PassesThreshold(Rows[3]) /\ Removed(Rows[3])
    /\ tool.result[1].text = <<NO_CONTEXT>>

KnownTool == tool.name \in {"get_code_context", "augment_prompt"}
ValidArguments ==
    /\ tool.arguments # Null
    /\ "code_snippet" \in DOMAIN tool.arguments[1]
    /\ tool.arguments[1].code_snippet # ""
\* something in the retrieval pipeline of the call has failed: a service, the
\* filtering of a row whose similarity is null, or the prompt of a row
\* without content
PipelineFailed ==
    \/ \E i \in DOMAIN tool.calls : tool.calls[i].outcome # "ok"
    \/ \E k \in DOMAIN Rows :
          "similarity" \in DOMAIN Rows[k] /\ Rows[k].similarity.type # "float"
    \/ /\ tool.name = "augment_prompt"
       /\ \E k \in DOMAIN Rows : PassesThreshold(Rows[k]) /\ "content" \notin DOMAIN Rows[k]
ErrorPrefix ==
    IF tool.name = "get_code_context" THEN "Error retrieving context: "
    ELSE "Error augmenting prompt: "

\* C15: a call of a known tool with a code_snippet never raises; when it has
\* returned it has returned one text block, and after a failure of the
\* pipeline that block holds the error text of the tool
C15_FailuresBecomeText ==
    (KnownTool /\ ValidArguments) =>
        /\ tool.pc # "raised"
        /\ tool.pc = "returned" =>
              /\ Len(tool.result) = 1 /\ tool.result[1].type = "text"
              /\ PipelineFailed <=> Head(tool.result[1].text) = ErrorPrefix

\* augment_prompt has returned the error text for a row without content
C15_Witness ==
    /\ tool.pc = "returned" /\ tool.name = "augment_prompt"
    /\ \A i \in DOMAIN tool.calls : tool.calls[i].outcome = "ok"
    /\ PipelineFailed
    /\ tool.result[1].text = <<"Error augmenting prompt: ", "KeyError">>

\* C16: a call without arguments, or whose code_snippet is missing or empty,
\* raises ValueError and has issued no embedding request and no storage query
C16_RejectedBeforePipeline ==
    (tool.pc # "idle" /\ ~ValidArguments) =>
        /\ tool.pc = "raised" /\ Head(tool.exc) = "ValueError"
        /\ tool.calls = <<>>

\* augment_prompt was called with an empty code_snippet
C16_Witness ==
    /\ tool.pc = "raised" /\ tool.name = "augment_prompt"
    /\ tool.arguments = Some([code_snippet |-> ""])

(* -------------------------- claims: the walk --------------------------- *)
Ignored(path) == \E i \in DOMAIN path : path[i] \in IGNORE_DIRECTORIES

\* C17: os.walk lists no directory that is, or lies under, a directory named
\* in IGNORE_DIRECTORIES, and every file that is opened is a file of the tree
\* outside such directories, not named in IGNORE_FILES, with an extension of
\* INCLUDE_EXTENSIONS
C17_WalkPrunesAndFilters ==
    /\ \A i \in DOMAIN walk.listed : ~Ignored(walk.listed[i])
    /\ \A f \in walk.opened :
          /\ f \in walk.tree
          /\ ~Ignored(f.dir)
          /\ <<f.stem, f.ext>> \notin IGNORE_FILES
          /\ f.ext \in INCLUDE_EXTENSIONS

\* the walk is over for a tree with a source file under src/node_modules and
\* one under src, and only the second one was opened
C17_Witness ==
    /\ walk.pc = "done"
    /\ [dir |-> <<"src", "node_modules">>, stem |-> "mod", ext |-> ".py"] \in walk.tree
    /\ walk.opened = {[dir |-> <<"src">>, stem |-> "mod", ext |-> ".py"]}
    /\ walk.listed = << <<>>, <<"src">> >>

(* ------------------------ claims: the splitter ------------------------- *)
\* the texts that the chunks give when each chunk after the first repeats at
\* most CHUNK_OVERLAP characters of the end of the text before it
RECURSIVE Glued(_, _)
Glued(text, chunks) ==
    IF chunks = <<>> THEN {text}
    ELSE LET c == Head(chunks)
             overlaps == {o \in 0 .. CHUNK_OVERLAP :
                             /\ o <= Len(c) /\ o <= Len(text)
                             /\ SubSeq(text, Len(text) - o + 1, Len(text)) = SubSeq(c, 1, o)}
         IN  UNION {Glued(text \o SubSeq(c, o + 1, Len(c)), Tail(chunks)) : o \in overlaps}

\* C18: the chunks of a text, concatenated with the overlap removed, are the
\* text, and every chunk but the last has at most CHUNK_SIZE characters
C18_ChunkingLossless ==
    splitter.pc = "done" =>
        /\ splitter.text \in Glued(<<>>, splitter.chunks)
        /\ \A i \in 1 .. (Len(splitter.chunks) - 1) : Len(splitter.chunks[i]) <= CHUNK_SIZE

====
